---- MODULE Spec2Model ----
(***************************************************************************)
(* Model of AutomatedTesting/Gem/PythonTests/largeworlds/dyn_veg/          *)
(* EditorScripts/SurfaceMaskFilter_InclusionList.py:                       *)
(* TestInclusiveSurfaceMasksTag.run_test and its two nested helpers.       *)
(*                                                                         *)
(* The script is a single thread of control; pc is its position.  Every    *)
(* call into the editor (azlmbr buses, hydra, dynveg, EditorTestHelper)    *)
(* is appended to `calls` with its arguments and its result, every line    *)
(* the script writes is appended to `log`.                                 *)
(*                                                                         *)
(* The editor itself (level, entities, components, the vegetation system) *)
(* is not part of the script: it is a black box, and each call returns any *)
(* value of a small set.                                                   *)
(*                                                                         *)
(* Python values: booleans and None are the strings "True", "False",       *)
(* "None"; surface tags are their decimal digits as strings (3363197873    *)
(* does not fit a 32-bit integer); the floats of the script are whole      *)
(* metres and seconds, the weight 0.9 is 9 tenths.                         *)
(***************************************************************************)
EXTENDS Integers, Sequences, FiniteSets

VARIABLES
    pc,                      \* position of the script in run_test
    test_success,            \* self.test_success
    frame,                   \* arguments of the nested helper being run
    new_value,               \* local new_value of the nested helper
    box,                     \* local box of run_test
    num_found,               \* local num_found of run_test
    num_expected_instances,  \* local num_expected_instances of run_test
    log,                     \* lines written with self.log and print
    calls                    \* editor calls made so far, with their results

vars == <<pc, test_success, frame, new_value, box, num_found,
          num_expected_instances, log, calls>>

----------------------------------------------------------------------------
(* Literals of the script *)

TerrainHoleTag == "1327698037"
TerrainTag == "3363197873"
EmptyTag == "0"

SpawnerName == "Instance Spawner"
Surface1Name == "Surface Entity 1"
Surface2Name == "Surface Entity 2"

SpawnerX == 512
SpawnerY == 512
SpawnerZ == 32
SpawnerBoxSize == 10
Surface1X == 510
Surface2X == 520
SurfaceY == 512
SurfaceZ == 32
SurfaceBoxSize == 10
FilterComponentIndex == 3
SurfaceComponentIndex == 1
IdleWaitSeconds == 2
NumExpectedDefault == 130
NumExpectedLowered == 0
WeightMaxLowered == 9

GeneratedTagsPath == "Configuration|Generated Tags"
GeneratedTag0Path == "Configuration|Generated Tags|[0]|Surface Tag"
InclusionTagsPath == "Configuration|Inclusion|Surface Tags"
InclusionTag0Path == "Configuration|Inclusion|Surface Tags|[0]|Surface Tag"
WeightMaxPath == "Configuration|Inclusion|Weight Max"

----------------------------------------------------------------------------
(* Python semantics used by the script *)

Truthy(v) == v = "True"

PyEq(a, b) == IF a = b THEN "True" ELSE "False"

\* faulty variant of PyAnd: the comparison overwrites the flag
PyAndOverwrite(a, b) == b

PyAnd(a, b) == IF Truthy(a) THEN b ELSE a

----------------------------------------------------------------------------
(* Records of what the script did *)

NoBox == <<>>

\* one editor call: what was called, on which entity / component index /
\* property path, with which argument, and what it returned
Call(api, ent, comp, path, arg, ret) ==
    [api |-> api, ent |-> ent, comp |-> comp, path |-> path,
     arg |-> arg, ret |-> ret]

TagList == <<EmptyTag>>   \* tag_list = [surface_data.SurfaceTag()]

Line(via, kind, tag, expected, found) ==
    [via |-> via, kind |-> kind, tag |-> tag,
     expected |-> expected, found |-> found]

NoFrame == [Entity |-> "", component_index |-> 0, surface_tag |-> "", ret |-> ""]

\* self.test_success on entry of run_test: whatever EditorTestHelper.__init__
\* left there (a Python boolean or None), or no attribute at all
EntryValues == {"Unset", "True", "False", "None"}

Init ==
    /\ pc = "create_level"
    /\ test_success \in EntryValues
    /\ frame = NoFrame
    /\ new_value = "Unset"
    /\ box = NoBox
    /\ num_found = -1
    /\ num_expected_instances = -1
    /\ log = <<>>
    /\ calls = <<>>

----------------------------------------------------------------------------
(* Values the editor may hand back *)

CountSlack == 1

PyResults == {"True", "False", "None"}
PyBools == {"True", "False"}
TagValues == {EmptyTag, TerrainHoleTag, TerrainTag}
ObservedCounts ==
    {n \in 0..(NumExpectedDefault + CountSlack) :
        \/ n <= NumExpectedLowered + CountSlack
        \/ n >= NumExpectedDefault - CountSlack}

Aabb(x, y, z, dx, dy, dz) ==
    <<x - dx \div 2, y - dy \div 2, z - dz \div 2,
      x + dx \div 2, y + dy \div 2, z + dz \div 2>>

SpawnerAabb ==
    Aabb(SpawnerX, SpawnerY, SpawnerZ, SpawnerBoxSize, SpawnerBoxSize, SpawnerBoxSize)
NullAabb == <<0, 0, 0, 0, 0, 0>>
Aabbs == {SpawnerAabb, NullAabb}

----------------------------------------------------------------------------
(* The steps of run_test.  A parameter is what the editor returned. *)

Goto(from, to) == pc = from /\ pc' = to

Did(c) == calls' = Append(calls, c)

Wrote(l) == log' = Append(log, l)

\* 1) self.test_success = self.create_level(...)
StepCreateLevel(r) ==
    /\ Goto("create_level", "set_view")
    /\ test_success' = r
    /\ Did(Call("create_level", "", -1, "", "level", r))
    /\ UNCHANGED <<frame, new_value, box, num_found, num_expected_instances, log>>

StepSetView ==
    /\ Goto("set_view", "create_spawner")
    /\ Did(Call("set_current_view_position", "", -1, "", <<512, 480, 38>>, "None"))
    /\ UNCHANGED <<test_success, frame, new_value, box, num_found,
                   num_expected_instances, log>>

\* 2) spawner_entity = dynveg.create_vegetation_area(...)
StepCreateSpawner ==
    /\ Goto("create_spawner", "add_filter")
    /\ Did(Call("create_vegetation_area", SpawnerName, -1, "",
                <<SpawnerX, SpawnerY, SpawnerZ,
                  SpawnerBoxSize, SpawnerBoxSize, SpawnerBoxSize>>,
                SpawnerName))
    /\ UNCHANGED <<test_success, frame, new_value, box, num_found,
                   num_expected_instances, log>>

\* 3) spawner_entity.add_component("Vegetation Surface Mask Filter")
StepAddFilter ==
    /\ Goto("add_filter", "create_surface1")
    /\ Did(Call("add_component", SpawnerName, -1, "",
                "Vegetation Surface Mask Filter", "None"))
    /\ UNCHANGED <<test_success, frame, new_value, box, num_found,
                   num_expected_instances, log>>

\* 4) surface_entity_1 = dynveg.create_surface_entity(...);
\*    update_generated_surface_tag(surface_entity_1, 1, terrainHole)
StepCreateSurface1 ==
    /\ Goto("create_surface1", "ugst_getset")
    /\ Did(Call("create_surface_entity", Surface1Name, -1, "",
                <<Surface1X, SurfaceY, SurfaceZ, SurfaceBoxSize, SurfaceBoxSize, 1>>,
                Surface1Name))
    /\ frame' = [Entity |-> Surface1Name, component_index |-> SurfaceComponentIndex,
                 surface_tag |-> TerrainHoleTag, ret |-> "create_surface2"]
    /\ UNCHANGED <<test_success, new_value, box, num_found,
                   num_expected_instances, log>>

StepCreateSurface2 ==
    /\ Goto("create_surface2", "ugst_getset")
    /\ Did(Call("create_surface_entity", Surface2Name, -1, "",
                <<Surface2X, SurfaceY, SurfaceZ, SurfaceBoxSize, SurfaceBoxSize, 1>>,
                Surface2Name))
    /\ frame' = [Entity |-> Surface2Name, component_index |-> SurfaceComponentIndex,
                 surface_tag |-> TerrainTag, ret |-> "call_ustil"]
    /\ UNCHANGED <<test_success, new_value, box, num_found,
                   num_expected_instances, log>>

\* update_generated_surface_tag(Entity, component_index, surface_tag)
StepUgstGetSet(r) ==
    /\ Goto("ugst_getset", "ugst_set")
    /\ Did(Call("get_set_test", frame.Entity, frame.component_index,
                GeneratedTagsPath, TagList, r))
    /\ UNCHANGED <<test_success, frame, new_value, box, num_found,
                   num_expected_instances, log>>

StepUgstSet ==
    /\ Goto("ugst_set", "ugst_get")
    /\ Did(Call("SetComponentProperty", frame.Entity, frame.component_index,
                GeneratedTag0Path, frame.surface_tag, "None"))
    /\ UNCHANGED <<test_success, frame, new_value, box, num_found,
                   num_expected_instances, log>>

StepUgstGet(v) ==
    /\ Goto("ugst_get", "ugst_log")
    /\ Did(Call("get_component_property_value", frame.Entity, frame.component_index,
                GeneratedTag0Path, "None", v))
    /\ new_value' = v
    /\ UNCHANGED <<test_success, frame, box, num_found, num_expected_instances, log>>

StepUgstLog ==
    /\ pc = "ugst_log"
    /\ pc' = frame.ret
    /\ Wrote(Line("log",
                  IF new_value = frame.surface_tag
                      THEN "generated_tag_added" ELSE "generated_tag_failed",
                  frame.surface_tag, -1, -1))
    /\ UNCHANGED <<test_success, frame, new_value, box, num_found,
                   num_expected_instances, calls>>

\* 5) update_surface_tag_inclusion_list(spawner_entity, 3, terrainHole)
\* faulty variant of StepCallUstil: Weight Max is lowered before the first check
StepCallUstilLowersWeight ==
    /\ Goto("call_ustil", "ustil_getset")
    /\ frame' = [Entity |-> SpawnerName, component_index |-> FilterComponentIndex,
                 surface_tag |-> TerrainHoleTag, ret |-> "wait1"]
    /\ Did(Call("get_set_test", SpawnerName, FilterComponentIndex,
                WeightMaxPath, WeightMaxLowered, "True"))
    /\ UNCHANGED <<test_success, new_value, box, num_found,
                   num_expected_instances, log>>

StepCallUstil ==
    /\ Goto("call_ustil", "ustil_getset")
    /\ frame' = [Entity |-> SpawnerName, component_index |-> FilterComponentIndex,
                 surface_tag |-> TerrainHoleTag, ret |-> "wait1"]
    /\ UNCHANGED <<test_success, new_value, box, num_found,
                   num_expected_instances, log, calls>>

StepUstilGetSet(r) ==
    /\ Goto("ustil_getset", "ustil_set")
    /\ Did(Call("get_set_test", frame.Entity, frame.component_index,
                InclusionTagsPath, TagList, r))
    /\ UNCHANGED <<test_success, frame, new_value, box, num_found,
                   num_expected_instances, log>>

StepUstilSet ==
    /\ Goto("ustil_set", "ustil_get")
    /\ Did(Call("SetComponentProperty", frame.Entity, frame.component_index,
                InclusionTag0Path, frame.surface_tag, "None"))
    /\ UNCHANGED <<test_success, frame, new_value, box, num_found,
                   num_expected_instances, log>>

StepUstilGet(v) ==
    /\ Goto("ustil_get", "ustil_log")
    /\ Did(Call("get_component_property_value", frame.Entity, frame.component_index,
                InclusionTag0Path, "None", v))
    /\ new_value' = v
    /\ UNCHANGED <<test_success, frame, box, num_found, num_expected_instances, log>>

\* faulty variant of StepUstilLog: success is reported without comparing
StepUstilLogBlind ==
    /\ Goto("ustil_log", "ustil_wait")
    /\ Wrote(Line("print", "inclusion_tag_added", "terrainHole", -1, -1))
    /\ UNCHANGED <<test_success, frame, new_value, box, num_found,
                   num_expected_instances, calls>>

StepUstilLog ==
    /\ Goto("ustil_log", "ustil_wait")
    /\ Wrote(Line("print",
                  IF new_value = frame.surface_tag
                      THEN "inclusion_tag_added" ELSE "inclusion_tag_failed",
                  "terrainHole", -1, -1))
    /\ UNCHANGED <<test_success, frame, new_value, box, num_found,
                   num_expected_instances, calls>>

\* faulty variant of IdleWait: the script goes on without waiting
IdleWaitSkipped(from, to) ==
    /\ Goto(from, to)
    /\ UNCHANGED <<test_success, frame, new_value, box, num_found,
                   num_expected_instances, log, calls>>

IdleWait(from, to) ==
    /\ Goto(from, to)
    /\ Did(Call("idle_wait", "", -1, "", IdleWaitSeconds, "None"))
    /\ UNCHANGED <<test_success, frame, new_value, box, num_found,
                   num_expected_instances, log>>

StepUstilWait ==
    /\ pc = "ustil_wait"
    /\ IdleWait("ustil_wait", frame.ret)

\* 6) Check spawn count with default Inclusion Weights
StepWait1 == IdleWait("wait1", "get_aabb")

StepGetAabb(b) ==
    /\ Goto("get_aabb", "query1")
    /\ num_expected_instances' = NumExpectedDefault
    /\ Did(Call("GetEncompassingAabb", SpawnerName, -1, "", "None", b))
    /\ box' = b
    /\ UNCHANGED <<test_success, frame, new_value, num_found, log>>

InstanceCountQuery(from, to, n) ==
    /\ Goto(from, to)
    /\ Did(Call("GetInstanceCountInAabb", "", -1, "", box, n))
    /\ num_found' = n

StepQuery1(n) ==
    /\ InstanceCountQuery("query1", "check1", n)
    /\ UNCHANGED <<test_success, frame, new_value, box, num_expected_instances, log>>

\* faulty variant of CountCheck: the comparison is logged and not accumulated
CountCheckLogOnly(from, to) ==
    /\ Goto(from, to)
    /\ Wrote(Line("log", "expected_found", "", num_expected_instances, num_found))
    /\ UNCHANGED <<test_success, frame, new_value, box, num_found,
                   num_expected_instances, calls>>

CountCheck(from, to) ==
    /\ Goto(from, to)
    /\ Wrote(Line("log", "expected_found", "", num_expected_instances, num_found))
    /\ test_success' = PyAnd(test_success, PyEq(num_found, num_expected_instances))
    /\ UNCHANGED <<frame, new_value, box, num_found, num_expected_instances, calls>>

\* faulty variant of StepCheck1: a failed first comparison ends the test
StepCheck1Aborts ==
    IF num_found = num_expected_instances
        THEN CountCheck("check1", "set_weight_max")
        ELSE CountCheck("check1", "done")

StepCheck1 == CountCheck("check1", "set_weight_max")

\* 7) Check spawn count with Inclusion Weight Max set below 1.0
StepSetWeightMax(r) ==
    /\ Goto("set_weight_max", "wait2")
    /\ Did(Call("get_set_test", SpawnerName, FilterComponentIndex,
                WeightMaxPath, WeightMaxLowered, r))
    /\ UNCHANGED <<test_success, frame, new_value, box, num_found,
                   num_expected_instances, log>>

StepWait2 == IdleWait("wait2", "query2")

\* faulty variant of StepQuery2: the expected count is left at 130
StepQuery2KeepsExpected(n) ==
    /\ InstanceCountQuery("query2", "check2", n)
    /\ UNCHANGED <<test_success, frame, new_value, box, num_expected_instances, log>>

\* faulty variant of StepQuery2: the query is made on another box than the first
StepQuery2OtherBox(n) ==
    /\ Goto("query2", "check2")
    /\ \E b \in Aabbs \ {box} :
        /\ Did(Call("GetInstanceCountInAabb", "", -1, "", b, n))
        /\ box' = b
    /\ num_found' = n
    /\ num_expected_instances' = NumExpectedLowered
    /\ UNCHANGED <<test_success, frame, new_value, log>>

StepQuery2(n) ==
    /\ InstanceCountQuery("query2", "check2", n)
    /\ num_expected_instances' = NumExpectedLowered
    /\ UNCHANGED <<test_success, frame, new_value, box, log>>

StepCheck2 == CountCheck("check2", "done")

----------------------------------------------------------------------------
(* The script against the editor *)

CreateLevel == \E r \in PyResults : StepCreateLevel(r)
SetView == StepSetView
CreateSpawner == StepCreateSpawner
AddFilter == StepAddFilter
CreateSurface1 == StepCreateSurface1
CreateSurface2 == StepCreateSurface2
UgstGetSet == \E r \in PyBools : StepUgstGetSet(r)
UgstSet == StepUgstSet
UgstGet == \E v \in TagValues : StepUgstGet(v)
UgstLog == StepUgstLog
CallUstil == StepCallUstil
UstilGetSet == \E r \in PyBools : StepUstilGetSet(r)
UstilSet == StepUstilSet
UstilGet == \E v \in TagValues : StepUstilGet(v)
UstilLog == StepUstilLog
UstilWait == StepUstilWait
Wait1 == StepWait1
GetAabb == \E b \in Aabbs : StepGetAabb(b)
Query1 == \E n \in ObservedCounts : StepQuery1(n)
Check1 == StepCheck1
SetWeightMax == \E r \in PyBools : StepSetWeightMax(r)
Wait2 == StepWait2
Query2 == \E n \in ObservedCounts : StepQuery2(n)
Check2 == StepCheck2

Next ==
    \/ CreateLevel \/ SetView \/ CreateSpawner \/ AddFilter
    \/ CreateSurface1 \/ CreateSurface2
    \/ UgstGetSet \/ UgstSet \/ UgstGet \/ UgstLog
    \/ CallUstil \/ UstilGetSet \/ UstilSet \/ UstilGet \/ UstilLog \/ UstilWait
    \/ Wait1 \/ GetAabb \/ Query1 \/ Check1
    \/ SetWeightMax \/ Wait2 \/ Query2 \/ Check2

Spec == Init /\ [][Next]_vars

----------------------------------------------------------------------------
(* Reading the record of a run *)

CallsOf(api) == {i \in 1..Len(calls) : calls[i].api = api}

Min(S) == CHOOSE x \in S : \A y \in S : x <= y
Max(S) == CHOOSE x \in S : \A y \in S : y <= x

CountQueries == CallsOf("GetInstanceCountInAabb")
FirstQuery == Min(CountQueries)
SecondQuery == Max(CountQueries)

CountLines == SelectSeq(log, LAMBDA l : l.kind = "expected_found")

TagLines ==
    SelectSeq(log, LAMBDA l : l.kind \in {"generated_tag_added", "generated_tag_failed",
                                          "inclusion_tag_added", "inclusion_tag_failed"})

\* the indices of the calls of api, in the order they were made
IndexSeq(api) ==
    LET F[i \in 0..Len(calls)] ==
            IF i = 0 THEN <<>>
            ELSE IF calls[i].api = api THEN Append(F[i - 1], i) ELSE F[i - 1]
    IN  F[Len(calls)]

LevelResult == calls[1].ret

LevelFailed == calls # <<>> /\ ~Truthy(LevelResult)

GetSetFailed == \E i \in CallsOf("get_set_test") : calls[i].ret # "True"

ReadBackFailed ==
    \E k \in 1..Len(TagLines) :
        TagLines[k].kind \in {"generated_tag_failed", "inclusion_tag_failed"}

CountMismatch ==
    \E k \in 1..Len(CountLines) : CountLines[k].expected # CountLines[k].found

----------------------------------------------------------------------------
(* C1 *)

\* C1: when run_test finishes, test_success is true exactly when create_level
\* returned a true value, the first observed count is 130 and the second is 0,
\* whatever the property set/read-back calls returned.
C1_SuccessIffLevelAndCounts ==
    pc = "done" =>
        (Truthy(test_success) <=>
            /\ Truthy(LevelResult)
            /\ calls[FirstQuery].ret = 130
            /\ calls[SecondQuery].ret = 0)

\* a run that finishes successful although a get_set_test and a read-back failed
C1_Witness ==
    /\ pc = "done"
    /\ Truthy(test_success)
    /\ GetSetFailed
    /\ ReadBackFailed

----------------------------------------------------------------------------
(* C4 *)

ExpectedTagWrites ==
    << <<Surface1Name, 1, GeneratedTag0Path, "1327698037">>,
       <<Surface2Name, 1, GeneratedTag0Path, "3363197873">>,
       <<SpawnerName, 3, InclusionTag0Path, "1327698037">> >>

\* the read-back that follows the k-th surface-tag write returned the value set
ReadBackEqual(k) ==
    LET w == IndexSeq("SetComponentProperty") IN
    /\ w[k] < Len(calls)
    /\ calls[w[k] + 1].api = "get_component_property_value"
    /\ calls[w[k] + 1].ret = calls[w[k]].arg

\* C4 as stated: the set/read-back equality of the three surface-tag writes is a
\* requirement of the test: a run that finishes with test_success true has read
\* back, after each of the three writes, the value that was set.
C4_ReadBackRequiredForSuccess ==
    pc = "done" /\ Truthy(test_success) =>
        \A k \in 1..Len(IndexSeq("SetComponentProperty")) : ReadBackEqual(k)

\* C4 amended: each of the three surface-tag writes is followed at once by a
\* read-back of the same component and property path; the script compares the
\* value read back with the value set and reports the write as added exactly
\* when they are equal, as failed otherwise; the outcome is not a requirement
\* of the test: up to the first count comparison test_success is still what
\* create_level returned, whatever was read back.
C4_ReadBackComparedAndLogged ==
    LET w == IndexSeq("SetComponentProperty") IN
    /\ Len(TagLines) <= Len(w)
    /\ Len(w) <= Len(ExpectedTagWrites)
    /\ \A k \in 1..Len(w) :
        LET c == calls[w[k]] IN
        /\ <<c.ent, c.comp, c.path, c.arg>> = ExpectedTagWrites[k]
        /\ w[k] < Len(calls) =>
            /\ calls[w[k] + 1].api = "get_component_property_value"
            /\ calls[w[k] + 1].ent = c.ent
            /\ calls[w[k] + 1].comp = c.comp
            /\ calls[w[k] + 1].path = c.path
        /\ k <= Len(TagLines) =>
            /\ w[k] < Len(calls)
            /\ TagLines[k].kind \in {"generated_tag_added", "inclusion_tag_added"}
                  <=> ReadBackEqual(k)
    /\ pc = "done" => Len(w) = Len(ExpectedTagWrites) /\ Len(TagLines) = Len(w)
    /\ pc # "create_level" /\ CountLines = <<>> => test_success = LevelResult

\* the three write/read-back pairs are done, one read-back matched, another did
\* not, and test_success is still true
C4_Witness ==
    /\ pc = "wait1"
    /\ Truthy(test_success)
    /\ Len(TagLines) = 3
    /\ TagLines[1].kind = "generated_tag_failed"
    /\ TagLines[3].kind = "inclusion_tag_added"

----------------------------------------------------------------------------
(* C5 *)

\* C5 as stated: whenever any step fails (level creation, a get_set_test, a
\* surface-tag read-back comparison, a count comparison), test_success is false
\* when run_test finishes.
C5_AnyFailureFailsTest ==
    pc = "done" /\ (LevelFailed \/ GetSetFailed \/ ReadBackFailed \/ CountMismatch)
        => ~Truthy(test_success)

\* C5 amended: test_success accumulates level creation and the two count
\* comparisons only: from the moment level creation or a count comparison has
\* failed, test_success is false, up to and including the finish.  (The result
\* of get_set_test is discarded and a read-back mismatch is only reported by
\* the helper: neither is accumulated.)
C5_LevelOrCountFailureFailsTest ==
    pc # "create_level" /\ (LevelFailed \/ CountMismatch) => ~Truthy(test_success)

\* a finished, failed run whose only failure is the second count comparison
C5_Witness ==
    /\ pc = "done"
    /\ ~LevelFailed
    /\ Len(CountLines) = 2
    /\ CountLines[1].expected = CountLines[1].found
    /\ CountLines[2].expected # CountLines[2].found
    /\ ~Truthy(test_success)

----------------------------------------------------------------------------
(* C6 *)

IsConfigChange(c) ==
    c.api \in {"create_level", "create_vegetation_area", "create_surface_entity",
               "add_component", "get_set_test", "SetComponentProperty"}

InclusionTagWrites ==
    {i \in CallsOf("SetComponentProperty") :
        calls[i].ent = SpawnerName /\ calls[i].path = InclusionTag0Path}

WeightMaxWrites ==
    {i \in CallsOf("get_set_test") \union CallsOf("SetComponentProperty") :
        calls[i].path = WeightMaxPath}

SettledBefore(q) ==
    \E w \in CallsOf("idle_wait") :
        /\ w < q
        /\ calls[w].arg = 2
        /\ \A j \in (w + 1)..(q - 1) : ~IsConfigChange(calls[j])

\* C6: every GetInstanceCountInAabb query is preceded by an idle_wait(2.0) with
\* no configuration change between the wait and the query; the first query
\* comes after the inclusion tag was set, the second after Weight Max was set.
C6_WaitBeforeEachQuery ==
    \A q \in CountQueries :
        /\ SettledBefore(q)
        /\ q = FirstQuery => \E i \in InclusionTagWrites : i < q
        /\ q # FirstQuery => \E i \in WeightMaxWrites : FirstQuery < i /\ i < q

C6_Witness ==
    /\ pc = "done"
    /\ Cardinality(CountQueries) = 2
    /\ calls[SecondQuery - 1].api = "idle_wait"
    /\ SecondQuery - 2 \in WeightMaxWrites

----------------------------------------------------------------------------
(* C7 *)

\* C7: there are never more than two GetInstanceCountInAabb queries and a
\* finished run has made exactly two; each is compared once with its literal
\* (130, then 0) whatever was observed; GetEncompassingAabb is called once, on
\* the spawner, before the first query, and both queries pass the box it
\* returned.
C7_TwoQueriesOneBox ==
    LET q == IndexSeq("GetInstanceCountInAabb")
        a == IndexSeq("GetEncompassingAabb")
    IN
    /\ Len(q) <= 2
    /\ Len(a) <= 1
    /\ Len(CountLines) <= Len(q)
    /\ \A k \in 1..Len(q) :
        /\ Len(a) = 1
        /\ a[1] < q[k]
        /\ calls[a[1]].ent = SpawnerName
        /\ calls[q[k]].arg = calls[a[1]].ret
    /\ \A k \in 1..Len(CountLines) :
        /\ CountLines[k].expected = <<130, 0>>[k]
        /\ CountLines[k].found = calls[q[k]].ret
    /\ pc = "done" => Len(q) = 2 /\ Len(CountLines) = 2

\* a finished run whose first count was wrong and was not asked for again
C7_Witness ==
    /\ pc = "done"
    /\ Cardinality(CountQueries) = 2
    /\ calls[FirstQuery].ret = 129
    /\ calls[SecondQuery].ret = 0
    /\ calls[SecondQuery].arg = box

----------------------------------------------------------------------------
(* C8 *)

ExpectedApis ==
    << "create_level", "set_current_view_position",
       "create_vegetation_area", "add_component",
       "create_surface_entity",
       "get_set_test", "SetComponentProperty", "get_component_property_value",
       "create_surface_entity",
       "get_set_test", "SetComponentProperty", "get_component_property_value",
       "get_set_test", "SetComponentProperty", "get_component_property_value",
       "idle_wait",
       "idle_wait", "GetEncompassingAabb", "GetInstanceCountInAabb",
       "get_set_test", "idle_wait", "GetInstanceCountInAabb" >>

ExpectedLines ==
    << {"generated_tag_added", "generated_tag_failed"},
       {"generated_tag_added", "generated_tag_failed"},
       {"inclusion_tag_added", "inclusion_tag_failed"},
       {"expected_found"}, {"expected_found"} >>

\* C8: whatever failed earlier, the script makes the same editor calls and
\* writes the same kinds of lines in the same order, never stops before the
\* last step, and has made all of them when it finishes.
C8_EveryStepAlwaysRuns ==
    /\ Len(calls) <= Len(ExpectedApis)
    /\ \A i \in 1..Len(calls) : calls[i].api = ExpectedApis[i]
    /\ Len(log) <= Len(ExpectedLines)
    /\ \A i \in 1..Len(log) : log[i].kind \in ExpectedLines[i]
    /\ pc = "done" => Len(calls) = Len(ExpectedApis) /\ Len(log) = Len(ExpectedLines)
    /\ pc # "done" => ENABLED Next

\* a finished run in which level creation, a read-back and the first count
\* comparison all failed and the second query and comparison were still made
C8_Witness ==
    /\ pc = "done"
    /\ LevelResult = "False"
    /\ ReadBackFailed
    /\ Len(CountLines) = 2
    /\ CountLines[1].found # 130
    /\ Cardinality(CountQueries) = 2

----------------------------------------------------------------------------
(* C9 *)

GeneratedTagWrites(ent) ==
    {i \in CallsOf("SetComponentProperty") :
        calls[i].ent = ent /\ calls[i].path = GeneratedTag0Path}

InclusionListCalls ==
    {i \in 1..Len(calls) : calls[i].path \in {InclusionTagsPath, InclusionTag0Path}}

WeightMinPath == "Configuration|Inclusion|Weight Min"

WeightWrites ==
    {i \in CallsOf("get_set_test") \union CallsOf("SetComponentProperty") :
        calls[i].path \in {WeightMaxPath, WeightMinPath}}

\* C9: the level is created first; both surface entities have their generated
\* tag set before the inclusion list is touched; the inclusion tag is set to
\* terrainHole before the first count query; the inclusion weights are written
\* at most once, to Weight Max, after the first count was observed and compared
\* and before the second query; a finished run has written it exactly once.
C9_DocumentedOrder ==
    /\ calls # <<>> => calls[1].api = "create_level"
    /\ \A i \in CallsOf("create_level") : i = 1
    /\ \A i \in InclusionListCalls :
        /\ \E g \in GeneratedTagWrites(Surface1Name) : g < i
        /\ \E g \in GeneratedTagWrites(Surface2Name) : g < i
    /\ \A q \in CountQueries :
        \E i \in InclusionTagWrites : i < q /\ calls[i].arg = "1327698037"
    /\ Cardinality(WeightWrites) <= 1
    /\ \A w \in WeightWrites :
        /\ calls[w].path = WeightMaxPath
        /\ CountQueries # {}
        /\ FirstQuery < w
        /\ Len(CountLines) >= 1
        /\ \A q \in CountQueries \ {FirstQuery} : w < q
    /\ pc = "done" => Cardinality(WeightWrites) = 1 /\ Cardinality(CountQueries) = 2

\* the first comparison is done, Weight Max has just been written and the
\* second query is still to come
C9_Witness ==
    /\ pc = "wait2"
    /\ Cardinality(WeightWrites) = 1
    /\ Cardinality(CountQueries) = 1
    /\ Len(CountLines) = 1

----------------------------------------------------------------------------
(* C10 *)

\* C10: once test_success has been assigned from create_level, a false
\* test_success never becomes true again.
C10_FalseStaysFalse ==
    [][pc # "create_level" /\ ~Truthy(test_success) => ~Truthy(test_success')]_vars

\* a finished run whose level creation failed, whose two counts both matched
\* and which is still failed
C10_Witness ==
    /\ pc = "done"
    /\ LevelFailed
    /\ ~CountMismatch
    /\ Len(CountLines) = 2
    /\ ~Truthy(test_success)
====
